---- MODULE Spec2Model ----
(***************************************************************************)
(* Model of ci/scripts/regression_detector.py: the SQLite-backed metric    *)
(* store (RegressionDetector), the median baseline, the threshold          *)
(* classifier, the report writer and the batch loop of main().             *)
(*                                                                         *)
(* Numbers.  Metric values are integers.  A baseline (a median, which for  *)
(* an even count is the mean of two values) and a percentage are exact     *)
(* rationals [num, den]; a threshold is a whole number of percent, so      *)
(* 0.05 is 5.  Floating-point rounding is not modelled.                    *)
(*                                                                         *)
(* Time.  time.time() is a logical clock that advances at every call, so   *)
(* two benchmark rows never share a timestamp.  SpecSkewed starts from a   *)
(* store written while the wall clock was ahead of the run's.              *)
(*                                                                         *)
(* Storage.  db is what the open connection reads (its own uncommitted     *)
(* writes included); disk is what has been committed.  conn.commit()       *)
(* copies db to disk; conn.close() and the end of the process drop what    *)
(* was not committed.                                                      *)
(***************************************************************************)
EXTENDS Integers, Sequences, FiniteSets, TLC

VARIABLES
  db,               \* the connection's view: [benchmarks, metrics]
  disk,             \* the committed tables:  [benchmarks, metrics]
  clock,            \* the next value time.time() returns
  pc,               \* "idle" (no process) | "loop" (main is in its for loop)
  args,             \* main's parsed arguments: [commit, threshold]
  new_files,        \* number of matched artifacts main has not visited yet
  pending,          \* entries of the artifact being processed, not yet visited
  all_regressions,  \* main's accumulated findings
  report,           \* the file at --output: [exists, failed, rows]
  exit_code,        \* the exit status of the process (-1: it has not exited)
  closed,           \* detector.close() was called by the last process
  last,             \* history: the last operation, its inputs and its outcome
  run               \* history: what the current (or last) run of main has done

vars == <<db, disk, clock, pc, args, new_files, pending, all_regressions,
          report, exit_code, closed, last, run>>

storeVars == <<db, disk, clock>>
mainVars == <<pc, args, new_files, pending, all_regressions, report,
              exit_code, closed, run>>

-----------------------------------------------------------------------------
(* Program constants *)

\* get_baseline(self, test_name, metric_name, window=5)
Window == 5

\* --threshold default 0.05, in percent
DefaultThreshold == 5

(* Bounds of the model *)

\* main calls add_measurement at most this many times over all its runs
MaxClock == 3

\* main calls add_measurement at most this many times on a store filled by
\* earlier runs
MaxSeeded == 1

\* the library's add_measurement is called at most this many times
MaxCalls == 2

\* an artifact glob matches at most this many files
MaxFiles == 2

-----------------------------------------------------------------------------
(* JSON values, as json.load returns them *)

Num(v) == [kind |-> "num", v |-> v]

\* a str: not an instance of (int, float)
Str == [kind |-> "str", v |-> 0]

\* an int too large for a float, such as 10**400
Huge == [kind |-> "huge", v |-> 0]

\* a key the entry does not have
Absent == [kind |-> "absent", v |-> 0]

\* isinstance(value, (int, float))
IsNumber(value) == value.kind \in {"num", "huge"}

\* One item of a dict, in insertion order
Item(name, value) == [name |-> name, value |-> value]

\* json.dumps(metrics): the text keeps each key, in order, with its value's
\* literal: a quoted string, or the digits of a number
JsonDumps(metrics) ==
  [i \in 1..Len(metrics) |->
     <<metrics[i].name,
       IF metrics[i].value.kind = "str" THEN "string" ELSE "number",
       metrics[i].value>>]

-----------------------------------------------------------------------------
(* Rationals *)

Rat(n, d) ==
  IF d = 2 /\ n % 2 = 0 THEN [some |-> TRUE, num |-> n \div 2, den |-> 1]
  ELSE [some |-> TRUE, num |-> n, den |-> d]

None == [some |-> FALSE, num |-> 0, den |-> 1]

-----------------------------------------------------------------------------
(* The store: RegressionDetector *)

EmptyTables == [benchmarks |-> {}, metrics |-> {}]

\* id INTEGER PRIMARY KEY: SQLite gives a new row the largest rowid plus one,
\* chosen before REPLACE deletes the conflicting row
NewRowid(benchmarks) ==
  IF benchmarks = {} THEN 1
  ELSE 1 + (CHOOSE m \in {b.id : b \in benchmarks} :
              \A b \in benchmarks : b.id <= m)

\* Variant: a plain INSERT on a table without the UNIQUE constraint
InsertAppending(tables, test_name, commit_hash, timestamp, metrics_json) ==
  [tables EXCEPT !.benchmarks = @ \cup
     {[id |-> NewRowid(tables.benchmarks), test_name |-> test_name,
       commit_hash |-> commit_hash, timestamp |-> timestamp,
       metrics_json |-> metrics_json]}]

\* INSERT OR REPLACE INTO benchmarks under UNIQUE(test_name, commit_hash): the
\* conflicting row is deleted (its metrics rows stay: no cascade, and foreign
\* keys are not enforced) and the new row is inserted
InsertOrReplace(tables, test_name, commit_hash, timestamp, metrics_json) ==
  [tables EXCEPT !.benchmarks =
     {b \in @ : ~(b.test_name = test_name /\ b.commit_hash = commit_hash)} \cup
     {[id |-> NewRowid(tables.benchmarks), test_name |-> test_name,
       commit_hash |-> commit_hash, timestamp |-> timestamp,
       metrics_json |-> metrics_json]}]

\* INSERT INTO metrics (benchmark_id, metric_name, value)
InsertMetric(tables, benchmark_id, metric_name, value) ==
  [tables EXCEPT !.metrics = @ \cup
     {[benchmark_id |-> benchmark_id, metric_name |-> metric_name,
       value |-> value]}]

\* The for loop of add_measurement from item i on.  fault = "insert" makes the
\* first INSERT raise sqlite3.OperationalError; float(value) raises
\* OverflowError for an int too large.  An exception leaves the rows written so
\* far in the connection's open transaction.
RECURSIVE StoreMetrics(_, _, _, _, _)
StoreMetrics(tables, benchmark_id, metrics, i, fault) ==
  IF i > Len(metrics) THEN [tables |-> tables, exc |-> "none"]
  ELSE IF ~IsNumber(metrics[i].value)
    THEN StoreMetrics(tables, benchmark_id, metrics, i + 1, fault)
  ELSE IF metrics[i].value.kind = "huge"
    THEN [tables |-> tables, exc |-> "OverflowError"]
  ELSE IF fault = "insert"
    THEN [tables |-> tables, exc |-> "OperationalError"]
  ELSE StoreMetrics(
         InsertMetric(tables, benchmark_id, metrics[i].name, metrics[i].value.v),
         benchmark_id, metrics, i + 1, fault)

\* add_measurement(self, test_name, commit_hash, metrics) at time `timestamp`,
\* on the connection view d with committed tables k.
\* Result: [db, disk, exc].
AddMeasurement(d, k, timestamp, test_name, commit_hash, metrics, fault) ==
  IF fault = "upsert" THEN [db |-> d, disk |-> k, exc |-> "OperationalError"]
  ELSE
    LET upserted == InsertOrReplace(d, test_name, commit_hash, timestamp,
                                    JsonDumps(metrics))
        benchmark_id == NewRowid(d.benchmarks)
        stored == StoreMetrics(upserted, benchmark_id, metrics, 1, fault)
    IN IF stored.exc # "none"
         THEN [db |-> stored.tables, disk |-> k, exc |-> stored.exc]
       ELSE IF fault = "commit"
         THEN [db |-> stored.tables, disk |-> k, exc |-> "OperationalError"]
       ELSE [db |-> stored.tables, disk |-> stored.tables, exc |-> "none"]

\* SELECT value FROM metrics JOIN benchmarks ON metrics.benchmark_id =
\* benchmarks.id WHERE test_name = ? AND metric_name = ?
Joined(tables, test_name, metric_name) ==
  {[timestamp |-> p[2].timestamp, id |-> p[2].id, value |-> p[1].value] :
     p \in {q \in tables.metrics \X tables.benchmarks :
              /\ q[1].benchmark_id = q[2].id
              /\ q[2].test_name = test_name
              /\ q[1].metric_name = metric_name}}

\* Variant: ORDER BY timestamp ASC LIMIT n
RECURSIVE OrderByTimestampAsc(_, _)
OrderByTimestampAsc(rows, n) ==
  IF rows = {} \/ n = 0 THEN <<>>
  ELSE LET r == CHOOSE x \in rows : \A y \in rows : x.timestamp <= y.timestamp
       IN <<r.value>> \o OrderByTimestampAsc(rows \ {r}, n - 1)

\* ORDER BY timestamp DESC LIMIT n
RECURSIVE OrderByTimestampDesc(_, _)
OrderByTimestampDesc(rows, n) ==
  IF rows = {} \/ n = 0 THEN <<>>
  ELSE LET r == CHOOSE x \in rows : \A y \in rows : y.timestamp <= x.timestamp
       IN <<r.value>> \o OrderByTimestampDesc(rows \ {r}, n - 1)

\* statistics.median(values), values not empty
Median(values) ==
  LET data == SortSeq(values, LAMBDA a, b : a < b)
      n == Len(data)
  IN IF n % 2 = 1 THEN Rat(data[(n \div 2) + 1], 1)
     ELSE Rat(data[n \div 2] + data[(n \div 2) + 1], 2)

\* get_baseline(self, test_name, metric_name, window=5)
GetBaseline(tables, test_name, metric_name) ==
  LET values == OrderByTimestampDesc(Joined(tables, test_name, metric_name), Window)
  IN IF values = <<>> THEN None ELSE Median(values)

\* new_value > baseline * (1 + threshold), threshold in percent
Exceeds(new_value, baseline, threshold) ==
  new_value * baseline.den * 100 > baseline.num * (100 + threshold)

\* The finding appended at lines 92-99: regression * 100 =
\* (new_value - baseline) / baseline * 100
Finding(test_name, metric_name, baseline, new_value) ==
  [test |-> test_name, metric |-> metric_name, baseline |-> baseline,
   new |-> new_value,
   regression_pct |-> [num |-> (new_value * baseline.den - baseline.num) * 100,
                       den |-> baseline.num]]

\* The for loop of check_regression from item i on, with the findings so far.
\* fault = "select" makes the first query raise sqlite3.OperationalError.  An
\* exception leaves the function without its list.
RECURSIVE Classify(_, _, _, _, _, _, _)
Classify(tables, test_name, metrics, threshold, i, regressions, fault) ==
  IF i > Len(metrics) THEN [regressions |-> regressions, exc |-> "none"]
  ELSE IF ~IsNumber(metrics[i].value)
    THEN Classify(tables, test_name, metrics, threshold, i + 1, regressions, fault)
  ELSE IF fault = "select"
    THEN [regressions |-> <<>>, exc |-> "OperationalError"]
  ELSE
    LET baseline == GetBaseline(tables, test_name, metrics[i].name)
        new_value == metrics[i].value
    IN IF ~baseline.some
         THEN Classify(tables, test_name, metrics, threshold, i + 1, regressions, fault)
       ELSE IF new_value.kind = "huge"
         \* 10**400 > any float; new_value - baseline overflows
         THEN [regressions |-> <<>>, exc |-> "OverflowError"]
       ELSE IF ~Exceeds(new_value.v, baseline, threshold)
         THEN Classify(tables, test_name, metrics, threshold, i + 1, regressions, fault)
       ELSE IF baseline.num = 0
         THEN [regressions |-> <<>>, exc |-> "ZeroDivisionError"]
       ELSE Classify(tables, test_name, metrics, threshold, i + 1,
                     Append(regressions,
                            Finding(test_name, metrics[i].name, baseline, new_value.v)),
                     fault)

\* check_regression(self, test_name, metrics, threshold): [regressions, exc]
CheckRegression(tables, test_name, metrics, threshold, fault) ==
  Classify(tables, test_name, metrics, threshold, 1, <<>>, fault)

-----------------------------------------------------------------------------
(* History variables *)

\* The metric names of `metrics` that have a sample in `tables` for test_name
PriorMetrics(tables, test_name, metrics) ==
  {metrics[i].name : i \in {j \in 1..Len(metrics) :
      Joined(tables, test_name, metrics[j].name) # {}}}

\* op: "add", "check", "reopen" (library); "start", "empty", "open", "record",
\* "report" (steps of main).  prior: the metrics of the record that had a
\* sample before the operation; before: all_regressions before the step;
\* again: an earlier record of the same run had written the record's test
NoOp ==
  [op |-> "none", test |-> "", commit |-> "", metrics |-> <<>>, threshold |-> 0,
   exc |-> "none", regressions |-> <<>>, prior |-> {}, replaced |-> FALSE,
   before |-> <<>>, again |-> FALSE]

\* matched: artifacts the glob matched; visited: artifacts the loop has
\* taken; storage_error: a storage operation of this run raised
\* failed: artifacts whose processing raised; after_failure: records
\* processed without an exception after the first failure; started: the
\* clock when the run began
NoRun ==
  [matched |-> 0, visited |-> 0, storage_error |-> FALSE,
   report_written |-> FALSE, failed |-> 0, after_failure |-> 0, started |-> 0]

-----------------------------------------------------------------------------
(* Inputs *)

Tests == {"BM_Sort", "BM_Scan"}
Commits == {"HEAD", "abc123"}

InitStore ==
  /\ db = EmptyTables
  /\ disk = EmptyTables
  /\ clock = 1

InitMain ==
  /\ pc = "idle"
  /\ args = [commit |-> "HEAD", threshold |-> DefaultThreshold]
  /\ new_files = 0
  /\ pending = <<>>
  /\ all_regressions = <<>>
  /\ report = [exists |-> FALSE, failed |-> FALSE, rows |-> <<>>]
  /\ exit_code = -1
  /\ closed = FALSE
  /\ last = NoOp
  /\ run = NoRun

Init == InitStore /\ InitMain

-----------------------------------------------------------------------------
(* The detector used as a library: its methods called one at a time *)

RealTime(v) == <<Item("real_time", Num(v))>>
Both(v, w) == <<Item("real_time", Num(v)), Item("cpu_time", w)>>

ApiStored ==
  {Both(100, Num(0)), RealTime(-100), Both(110, Huge), <<Item("cpu_time", Num(100))>>}

ApiChecked ==
  {RealTime(-101), RealTime(-90), RealTime(105), RealTime(106), Both(120, Num(5)),
   <<Item("cpu_time", Num(0))>>, <<Item("cpu_time", Num(5)), Item("real_time", Num(120))>>,
   <<Item("note", Str), Item("real_time", Num(111))>>}

ApiThresholds == {DefaultThreshold}

\* detector.add_measurement(test_name, commit_hash, metrics)
ApiAddMeasurement ==
  /\ clock <= MaxCalls
  /\ \E test_name \in Tests, commit_hash \in Commits, metrics \in ApiStored :
       \E r \in {AddMeasurement(db, disk, clock, test_name, commit_hash, metrics, "none")} :
          /\ db' = r.db
          /\ disk' = r.disk
          /\ clock' = clock + 1
          /\ last' = [NoOp EXCEPT !.op = "add", !.test = test_name,
                        !.commit = commit_hash, !.metrics = metrics, !.exc = r.exc,
                        !.prior = PriorMetrics(db, test_name, metrics),
                        !.replaced = \E b \in db.benchmarks :
                                        /\ b.test_name = test_name
                                        /\ b.commit_hash = commit_hash
                                        /\ b.metrics_json # JsonDumps(metrics)]
  /\ UNCHANGED mainVars

\* detector.check_regression(test_name, metrics, threshold)
ApiCheckRegression ==
  /\ \E test_name \in Tests, metrics \in ApiChecked, threshold \in ApiThresholds :
       \E r \in {CheckRegression(db, test_name, metrics, threshold, "none")} :
          last' = [NoOp EXCEPT !.op = "check", !.test = test_name,
                     !.metrics = metrics, !.threshold = threshold, !.exc = r.exc,
                     !.regressions = r.regressions,
                     !.prior = PriorMetrics(db, test_name, metrics)]
  /\ UNCHANGED <<storeVars, mainVars>>

\* detector.close(), then RegressionDetector(db_path) again: what was not
\* committed is gone
ApiReopen ==
  /\ db # disk
  /\ db' = disk
  /\ last' = [NoOp EXCEPT !.op = "reopen"]
  /\ UNCHANGED <<disk, clock, mainVars>>

-----------------------------------------------------------------------------
(* main() *)

\* benchmark.get(key, 0)
GetOr0(value) == IF value = Absent THEN Num(0) ELSE value

\* One entry of data['benchmarks'] as the record main builds from it (lines
\* 152-157); name = "" stands for an entry without 'name'
Benchmark(name, real_time, cpu_time, iterations) ==
  [name |-> name,
   metrics |-> <<Item("real_time", GetOr0(real_time)),
                 Item("cpu_time", GetOr0(cpu_time)),
                 Item("iterations", GetOr0(iterations))>>]

\* A file in the custom format as the record main builds from it (lines
\* 164-165): test_name = "" stands for a file without 'test_name', whose
\* record takes the file's stem
Custom(test_name, stem, metrics) ==
  [name |-> IF test_name = "" THEN stem ELSE test_name, metrics |-> metrics]

\* An artifact: parsed = FALSE when open or json.load raises
Malformed == [parsed |-> FALSE, records |-> <<>>]
Parsed(records) == [parsed |-> TRUE, records |-> records]

Artifacts ==
  {Malformed,
   Parsed(<<Benchmark("BM_Sort", Num(100), Absent, Absent)>>),
   Parsed(<<Benchmark("BM_Sort", Num(120), Num(5), Absent)>>),
   Parsed(<<Benchmark("BM_Scan", Num(-100), Absent, Absent),
            Benchmark("BM_Sort", Num(100), Absent, Absent)>>),
   Parsed(<<Benchmark("", Num(100), Absent, Absent),
            Benchmark("BM_Sort", Num(120), Absent, Absent)>>),
   Parsed(<<Custom("BM_Scan", "results", Both(100, Huge))>>),
   Parsed(<<Custom("", "BM_Scan", <<Item("note", Str), Item("real_time", Num(100))>>)>>)}

Thresholds == {DefaultThreshold}

\* The storage faults the environment injects while a record is processed:
\* the named operation raises sqlite3.OperationalError
Faults(record) ==
  IF record.name = "BM_Sort" /\ record.metrics[1].value = Num(120)
    THEN {"none", "upsert", "insert", "commit", "select"}
  ELSE {"none"}

\* Variant: the record is classified against the store as it was, then
\* written
ClassifyThenIngest(d, k, timestamp, test_name, commit, metrics, threshold, regs, fault) ==
  LET checked == CheckRegression(d, test_name, metrics, threshold, fault)
      added == AddMeasurement(d, k, timestamp, test_name, commit, metrics, fault)
  IN IF checked.exc # "none"
       THEN [db |-> d, disk |-> k, all_regressions |-> regs,
             regressions |-> <<>>, exc |-> checked.exc]
     ELSE IF added.exc # "none"
       THEN [db |-> added.db, disk |-> added.disk, all_regressions |-> regs,
             regressions |-> <<>>, exc |-> added.exc]
     ELSE [db |-> added.db, disk |-> added.disk,
           all_regressions |-> regs \o checked.regressions,
           regressions |-> checked.regressions, exc |-> "none"]

\* The body of the try block for one record (lines 159-161, 167-169):
\* add_measurement, check_regression, all_regressions.extend.
\* Result: [db, disk, all_regressions, regressions, exc]
IngestRecord(d, k, timestamp, test_name, commit, metrics, threshold, regs, fault) ==
  LET added == AddMeasurement(d, k, timestamp, test_name, commit, metrics, fault)
      checked == CheckRegression(added.db, test_name, metrics, threshold, fault)
  IN IF added.exc # "none"
       THEN [db |-> added.db, disk |-> added.disk, all_regressions |-> regs,
             regressions |-> <<>>, exc |-> added.exc]
     ELSE IF checked.exc # "none"
       THEN [db |-> added.db, disk |-> added.disk, all_regressions |-> regs,
             regressions |-> <<>>, exc |-> checked.exc]
     ELSE [db |-> added.db, disk |-> added.disk,
           all_regressions |-> regs \o checked.regressions,
           regressions |-> checked.regressions, exc |-> "none"]

\* f"{value:.1f}" of a rational: tenths, rounded half away from zero, and
\* the sign printed
Abs(n) == IF n < 0 THEN -n ELSE n
FormatPct(pct) ==
  [minus |-> (pct.num < 0) # (pct.den < 0),
   tenths |-> (2 * 10 * Abs(pct.num) + Abs(pct.den)) \div (2 * Abs(pct.den))]

\* One table row of generate_report (lines 115-116)
Row(reg) ==
  [test |-> reg.test, metric |-> reg.metric, baseline |-> reg.baseline,
   new |-> reg.new, plus |-> "+", regression |-> FormatPct(reg.regression_pct)]

\* Variant: the table is written and the marker line after it is not
GenerateReportWithoutMarker(regressions) ==
  [exists |-> TRUE, failed |-> FALSE,
   rows |-> [i \in 1..Len(regressions) |-> Row(regressions[i])]]

\* generate_report(self, regressions, output_file): the file it writes
GenerateReport(regressions) ==
  IF regressions = <<>>
    THEN [exists |-> TRUE, failed |-> FALSE, rows |-> <<>>]
  ELSE [exists |-> TRUE, failed |-> TRUE,
        rows |-> [i \in 1..Len(regressions) |-> Row(regressions[i])]]

\* main() up to the for loop, the glob matching n > 0 files (lines 131-139)
StartRun ==
  /\ pc = "idle"
  /\ \E commit \in Commits, threshold \in Thresholds, n \in 1..MaxFiles :
       /\ args' = [commit |-> commit, threshold |-> threshold]
       /\ new_files' = n
       /\ run' = [NoRun EXCEPT !.matched = n, !.started = clock]
  /\ pc' = "loop"
  /\ db' = disk
  /\ pending' = <<>>
  /\ all_regressions' = <<>>
  /\ closed' = FALSE
  /\ exit_code' = -1
  /\ last' = [NoOp EXCEPT !.op = "start"]
  /\ UNCHANGED <<disk, clock, report>>

\* main() when the glob matches nothing (lines 131-142)
EmptyGlob ==
  /\ pc = "idle"
  /\ \E commit \in Commits, threshold \in Thresholds :
       args' = [commit |-> commit, threshold |-> threshold]
  /\ new_files' = 0
  /\ run' = NoRun
  /\ db' = disk
  /\ pending' = <<>>
  /\ all_regressions' = <<>>
  /\ closed' = TRUE
  /\ exit_code' = 0
  /\ last' = [NoOp EXCEPT !.op = "empty"]
  /\ UNCHANGED <<disk, clock, report, pc>>

\* The loop takes the next file: open and json.load (lines 144-147); a
\* failure is printed and the loop continues (lines 171-173)
\* artifacts: the files the glob can match; budget: the clock value after
\* which no record is taken
Open(artifacts, budget) ==
  /\ pc = "loop"
  /\ pending = <<>>
  /\ new_files > 0
  /\ \E artifact \in artifacts :
       /\ clock + Len(artifact.records) <= budget + 1
       /\ pending' = artifact.records
       /\ last' = [NoOp EXCEPT !.op = "open", !.before = all_regressions,
                     !.exc = IF artifact.parsed THEN "none" ELSE "JSONDecodeError"]
       /\ run' = [run EXCEPT !.visited = @ + 1,
                              !.failed = IF artifact.parsed THEN @ ELSE @ + 1]
  /\ new_files' = new_files - 1
  /\ UNCHANGED <<storeVars, pc, args, all_regressions, report, exit_code, closed>>

OpenArtifact == Open(Artifacts, MaxClock)

\* Variant: only the parser's exceptions are caught
CaughtFromParsing(exc) == exc \in {"JSONDecodeError", "KeyError"}

\* except Exception (line 171): every exception raised in the try block is
\* an Exception
Caught(exc) == TRUE

\* One record of the file in hand (lines 151-161 or 164-169); an exception
\* is printed and the loop continues with the next file (lines 171-173).
\* An exception that is not caught leaves main: exit status 1, no close().
ProcessRecord ==
  /\ pc = "loop"
  /\ pending # <<>>
  /\ LET record == Head(pending) IN
     IF record.name = ""
       THEN \* benchmark['name'] raises KeyError
            /\ pending' = <<>>
            /\ last' = [NoOp EXCEPT !.op = "record", !.exc = "KeyError",
                          !.metrics = record.metrics, !.before = all_regressions]
            /\ run' = [run EXCEPT !.failed = @ + 1]
            /\ IF Caught("KeyError")
                 THEN UNCHANGED <<pc, exit_code>>
                 ELSE pc' = "idle" /\ exit_code' = 1
            /\ UNCHANGED <<storeVars, all_regressions>>
     ELSE \E fault \in Faults(record) :
          \E r \in {IngestRecord(db, disk, clock, record.name, args.commit,
                                 record.metrics, args.threshold, all_regressions,
                                 fault)} :
            /\ IF r.exc = "none" \/ Caught(r.exc)
                 THEN db' = r.db /\ UNCHANGED <<pc, exit_code>>
                 ELSE db' = r.disk /\ pc' = "idle" /\ exit_code' = 1
            /\ disk' = r.disk
            /\ clock' = clock + 1
            /\ all_regressions' = r.all_regressions
            /\ pending' = IF r.exc = "none" THEN Tail(pending) ELSE <<>>
            /\ run' = [run EXCEPT
                         !.storage_error = @ \/ r.exc = "OperationalError",
                         !.failed = IF r.exc = "none" THEN @ ELSE @ + 1,
                         !.after_failure =
                           IF r.exc = "none" /\ run.failed > 0 THEN @ + 1 ELSE @]
            /\ last' = [NoOp EXCEPT
                          !.op = "record", !.test = record.name,
                          !.commit = args.commit, !.metrics = record.metrics,
                          !.threshold = args.threshold, !.exc = r.exc,
                          !.regressions = r.regressions,
                          !.prior = PriorMetrics(db, record.name, record.metrics),
                          !.before = all_regressions,
                          !.again = \E b \in db.benchmarks :
                                       /\ b.test_name = record.name
                                       /\ b.commit_hash = args.commit
                                       /\ b.timestamp >= run.started]
  /\ UNCHANGED <<args, new_files, report, closed>>

\* After the loop: generate_report, close, the exit status (lines 175-184).
\* When open(output_file, 'w') raises, the exception leaves main: the
\* interpreter prints it and exits with status 1, close() not called.
Finish ==
  /\ pc = "loop"
  /\ pending = <<>>
  /\ new_files = 0
  /\ \E writable \in BOOLEAN :
       IF writable
         THEN /\ report' = GenerateReport(all_regressions)
              /\ closed' = TRUE
              /\ exit_code' = IF all_regressions # <<>> THEN 1 ELSE 0
              /\ run' = [run EXCEPT !.report_written = TRUE]
              /\ last' = [NoOp EXCEPT !.op = "report", !.before = all_regressions]
         ELSE /\ report' = report
              /\ closed' = FALSE
              /\ exit_code' = 1
              /\ run' = run
              /\ last' = [NoOp EXCEPT !.op = "report", !.exc = "OSError",
                            !.before = all_regressions]
  /\ pc' = "idle"
  /\ db' = disk
  /\ UNCHANGED <<disk, clock, args, new_files, pending, all_regressions>>

Next == StartRun \/ EmptyGlob \/ OpenArtifact \/ ProcessRecord \/ Finish

Spec == Init /\ [][Next]_vars

-----------------------------------------------------------------------------
(* One run of main() on a store that earlier runs have filled: five runs,
   each at a commit of its own, each recording BM_Sort once *)

OldCommits == <<"c1", "c2", "c3", "c4", "c5">>

SeedValues == {90, 100, 130}

RECURSIVE Seeded(_, _)
Seeded(values, n) ==
  IF n = 0 THEN EmptyTables
  ELSE AddMeasurement(Seeded(values, n - 1), EmptyTables, n - Len(values),
                      "BM_Sort", OldCommits[n],
                      Benchmark("BM_Sort", Num(values[n]), Absent, Absent).metrics,
                      "none").db

InitSeeded ==
  /\ \E values \in [1..Len(OldCommits) -> SeedValues] :
       /\ db = Seeded(values, Len(values))
       /\ disk = db
  /\ clock = 1
  /\ InitMain

SortArtifacts ==
  {Malformed,
   Parsed(<<Benchmark("BM_Sort", Num(120), Absent, Absent)>>),
   Parsed(<<Benchmark("BM_Sort", Num(120), Num(5), Absent)>>),
   Parsed(<<Benchmark("BM_Sort", Num(104), Absent, Absent)>>)}

OpenSortArtifact == Open(SortArtifacts, MaxSeeded)

\* the process is started once
FirstRun == last.op = "none" /\ StartRun
FirstEmptyGlob == last.op = "none" /\ EmptyGlob

NextSeeded ==
  FirstRun \/ FirstEmptyGlob \/ OpenSortArtifact \/ ProcessRecord \/ Finish

SpecSeeded == InitSeeded /\ [][NextSeeded]_vars

-----------------------------------------------------------------------------
(* One run of main() on a store whose five records were written while
   time.time() was ahead of what it returns during the run: by a machine
   with another clock, or before the clock was set back.  time.time() is the
   wall clock and nothing in add_measurement compares it with the timestamps
   the store holds. *)

SkewValues == {90, 130}

\* As Seeded, the timestamps later than any the run will take
RECURSIVE SeededAhead(_, _)
SeededAhead(values, n) ==
  IF n = 0 THEN EmptyTables
  ELSE AddMeasurement(SeededAhead(values, n - 1), EmptyTables, MaxSeeded + 1 + n,
                      "BM_Sort", OldCommits[n],
                      Benchmark("BM_Sort", Num(values[n]), Absent, Absent).metrics,
                      "none").db

InitSkewed ==
  /\ \E values \in [1..Len(OldCommits) -> SkewValues], ahead \in BOOLEAN :
       /\ db = IF ahead THEN SeededAhead(values, Len(values))
                ELSE Seeded(values, Len(values))
       /\ disk = db
  /\ clock = 1
  /\ InitMain

SpecSkewed == InitSkewed /\ [][NextSeeded]_vars

NextApi == ApiAddMeasurement \/ ApiCheckRegression \/ ApiReopen

SpecApi == Init /\ [][NextApi]_vars

-----------------------------------------------------------------------------
(* Properties *)

MetricNames == {"real_time", "cpu_time", "iterations", "note"}

\* a = b, for rationals
RatEq(a, b) == a.num * b.den = b.num * a.den

\* (new_value - baseline) / baseline * 100
Delta(new_value, baseline) ==
  [num |-> (new_value * baseline.den - baseline.num) * 100, den |-> baseline.num]

\* The samples of the live records of test_name for metric_name, each with
\* the commit of its record
Samples(tables, test_name, metric_name) ==
  {[commit |-> b.commit_hash, timestamp |-> b.timestamp, value |-> m.value] :
     <<m, b>> \in {q \in tables.metrics \X tables.benchmarks :
                     /\ q[1].benchmark_id = q[2].id
                     /\ q[2].test_name = test_name
                     /\ q[1].metric_name = metric_name}}

\* The findings of a list that are about one metric of one test
About(regressions, test_name, metric_name) ==
  SelectSeq(regressions,
            LAMBDA reg : reg.test = test_name /\ reg.metric = metric_name)

\* The numeric values a payload gives metric_name
ValuesIn(metrics, metric_name) ==
  {metrics[i].value.v : i \in {j \in 1..Len(metrics) :
     metrics[j].name = metric_name /\ metrics[j].value.kind = "num"}}

\* C1: when the store held 5 samples of (BM_Sort, real_time) from commits
\* other than the run's, with median B, and a run of main that met no
\* exception recorded one BM_Sort record with real_time v > B*(1+threshold),
\* the run ends with exactly one real_time finding, (B, v, (v-B)/B*100), the
\* report carries the failure marker and the exit status is 1.
C1_EndToEnd ==
  (last.op = "report" /\ last.exc = "none" /\ run.matched = 1 /\ run.failed = 0)
  =>
  LET mine == {r \in Samples(disk, "BM_Sort", "real_time") : r.commit = args.commit}
      prior == {r \in Samples(disk, "BM_Sort", "real_time") : r.commit # args.commit}
  IN (Cardinality(prior) = 5 /\ mine # {})
     =>
     LET B == Median(OrderByTimestampDesc(prior, 5))
         v == (CHOOSE r \in mine : TRUE).value
         found == About(all_regressions, "BM_Sort", "real_time")
     IN (v * B.den * 100 > B.num * (100 + args.threshold))
        =>
        /\ Len(found) = 1
        /\ RatEq(found[1].baseline, B)
        /\ found[1].new = v
        /\ RatEq(found[1].regression_pct, Delta(v, B))
        /\ report.exists /\ report.failed
        /\ exit_code = 1

\* C2: the store holds at most one benchmark record per (test_name,
\* commit_hash); after add_measurement has returned, the record of its pair
\* carries its payload; and every sample that get_baseline's query joins to a
\* record is an entry of that record's own payload.
C2_Upsert ==
  /\ \A a, b \in db.benchmarks :
       (a.test_name = b.test_name /\ a.commit_hash = b.commit_hash) => a = b
  /\ (last.op = "add" /\ last.exc = "none") =>
       \E b \in db.benchmarks :
         /\ b.test_name = last.test /\ b.commit_hash = last.commit
         /\ b.metrics_json = JsonDumps(last.metrics)
         /\ \A i \in 1..Len(last.metrics) :
              last.metrics[i].value.kind = "num" =>
                \E r \in Samples(db, last.test, last.metrics[i].name) :
                  r.commit = last.commit /\ r.value = last.metrics[i].value.v
  /\ \A b \in db.benchmarks : \A m \in db.metrics :
       m.benchmark_id = b.id =>
         \E i \in DOMAIN b.metrics_json :
           b.metrics_json[i] = <<m.metric_name, "number", Num(m.value)>>

\* C2, its case: a pair recorded a second time with other metrics, the first
\* call's samples still in the metrics table
C2_Witness ==
  /\ last.op = "add" /\ last.exc = "none" /\ last.replaced
  /\ \E m \in db.metrics : \A b \in db.benchmarks : b.id # m.benchmark_id
  /\ \E b \in db.benchmarks : \E m \in db.metrics : b.id = m.benchmark_id

\* C3: a finding of a record processed by main is about a metric that had a
\* sample in the store before the record was processed.
C3_NoBaselineSuppression ==
  (last.op = "record" /\ last.exc = "none") =>
    \A i \in 1..Len(last.regressions) : last.regressions[i].metric \in last.prior

\* C4: after a run whose glob matched nothing, the report file exists and
\* shows the success marker, and the exit status is 0.
C4_EmptyGlob ==
  last.op = "empty" => (report.exists /\ ~report.failed /\ exit_code = 0)

\* C5: for each numeric metric of a check_regression call whose baseline B
\* is established and not zero, the call yields a finding for it exactly when
\* new_value > B*(1+threshold), and that finding is (B, new_value,
\* (new_value-B)/B*100).
C5_ThresholdRule ==
  last.op = "check" =>
    \A name \in MetricNames : \A v \in ValuesIn(last.metrics, name) :
      LET B == GetBaseline(db, last.test, name)
          found == About(last.regressions, last.test, name)
      IN (B.some /\ B.num # 0) =>
           /\ (found # <<>>) <=> (v * B.den * 100 > B.num * (100 + last.threshold))
           /\ \A i \in 1..Len(found) :
                /\ found[i].baseline = B
                /\ found[i].new = v
                /\ RatEq(found[i].regression_pct, Delta(v, B))

\* The threshold rule on the calls that return their list
ThresholdRuleOnReturn ==
  (last.op = "check" /\ last.exc = "none") => C5_ThresholdRule

\* C6: check_regression yields no finding whose new value is below its
\* baseline.
C6_ImprovementSuppression ==
  last.op = "check" =>
    \A i \in 1..Len(last.regressions) :
      LET reg == last.regressions[i]
      IN ~(reg.new * reg.baseline.den < reg.baseline.num)

\* C7: a check_regression call in which some metric's baseline is 0 returns
\* its list; it does not raise ZeroDivisionError.
C7_ZeroBaseline ==
  (/\ last.op = "check"
   /\ \E name \in MetricNames :
        /\ ValuesIn(last.metrics, name) # {}
        /\ GetBaseline(db, last.test, name).some
        /\ GetBaseline(db, last.test, name).num = 0)
  => last.exc = "none"

\* C8: every committed benchmark record has a committed sample for each
\* numeric entry of its payload.
C8_RecordAtomicity ==
  \A b \in disk.benchmarks : \A i \in DOMAIN b.metrics_json :
    b.metrics_json[i][2] = "number" =>
      \E m \in disk.metrics :
        m.benchmark_id = b.id /\ m.metric_name = b.metrics_json[i][1]

\* C9: once a storage operation of a run has raised, the run is over with
\* the error as its outcome: main is not in its loop and has written no
\* report.
C9_StorageErrorsFatal ==
  run.storage_error =>
    (pc = "idle" /\ ~run.report_written /\ last.exc = "OperationalError")

\* C10: a failure on an artifact (parse or processing) leaves main in its
\* loop with the rest of that artifact skipped, the findings so far kept and
\* the files not yet visited still to come; a record processed without
\* failure is committed with its payload, classified against the store as it
\* then is, and its findings appended; and a report is written only after
\* every matched file was visited.
C10_FailureIsolation ==
  /\ (last.op \in {"open", "record"} /\ last.exc # "none") =>
       /\ pc = "loop"
       /\ pending = <<>>
       /\ all_regressions = last.before
       /\ new_files = run.matched - run.visited
  /\ (last.op = "record" /\ last.exc = "none") =>
       /\ pc = "loop"
       /\ disk = db
       /\ \E b \in db.benchmarks :
            /\ b.test_name = last.test /\ b.commit_hash = args.commit
            /\ b.metrics_json = JsonDumps(last.metrics)
       /\ last.regressions =
            CheckRegression(db, last.test, last.metrics, args.threshold, "none").regressions
       /\ all_regressions = last.before \o last.regressions
  /\ last.op = "report" =>
       /\ run.visited = run.matched
       /\ pending = <<>>
       /\ last.exc = "none" => report = GenerateReport(all_regressions)

\* C10, its case: a run in which an artifact failed, a later record was
\* processed and yielded a finding, and the report was written
C10_Witness ==
  /\ last.op = "report" /\ last.exc = "none"
  /\ run.failed > 0 /\ run.after_failure > 0
  /\ all_regressions # <<>>

\* The samples of a set that have fewer than n samples later than them
Latest(samples, n) ==
  {s \in samples :
     Cardinality({t \in samples : t.timestamp > s.timestamp}) < n}

\* The k-th smallest value of a set of samples, k in 1..Cardinality(samples)
Ranked(samples, k) ==
  CHOOSE x \in {s.value : s \in samples} :
    /\ Cardinality({s \in samples : s.value <= x}) >= k
    /\ Cardinality({s \in samples : s.value < x}) < k

\* The median of a non-empty set of samples: the middle value, or the mean of
\* the two middle values
MedianOf(samples) ==
  LET k == Cardinality(samples)
  IN IF k % 2 = 1 THEN [num |-> Ranked(samples, (k + 1) \div 2), den |-> 1]
     ELSE [num |-> Ranked(samples, k \div 2) + Ranked(samples, (k \div 2) + 1),
           den |-> 2]

\* C11: for every test and metric, get_baseline returns None exactly when no
\* live record of that test has a sample of that metric, and otherwise the
\* median of the min(5, n) of those n samples with the largest timestamps;
\* older samples, and the samples of other tests and metrics, play no part.
C11_HistoryWindow ==
  \A test_name \in Tests : \A metric_name \in MetricNames :
    LET samples == Samples(db, test_name, metric_name)
        baseline == GetBaseline(db, test_name, metric_name)
    IN /\ baseline.some <=> samples # {}
       /\ samples # {} => RatEq(baseline, MedianOf(Latest(samples, 5)))

\* C11, its case: a metric with 6 samples whose oldest sample would move the
\* median, while another test has none and another metric has other values
C11_Witness ==
  LET samples == Samples(db, "BM_Sort", "real_time")
  IN /\ Cardinality(samples) = 6
     /\ ~RatEq(GetBaseline(db, "BM_Sort", "real_time"), MedianOf(samples))
     /\ ~RatEq(GetBaseline(db, "BM_Sort", "real_time"),
               GetBaseline(db, "BM_Sort", "cpu_time"))
     /\ ~GetBaseline(db, "BM_Scan", "real_time").some

\* C12: every row of the metrics table belongs to a benchmark record that
\* exists: its benchmark_id is the id of a row of the benchmarks table.
C12_SampleOwnership ==
  \A m \in db.metrics : \E b \in db.benchmarks : b.id = m.benchmark_id

\* C13: when a run of main over at least one matched artifact returns, its
\* exit status is 1 if it accumulated a finding and 0 otherwise, and the
\* report it wrote carries the failure marker exactly when the status is 1,
\* with one row per accumulated finding, in the order of accumulation.
C13_ExitAndReport ==
  (last.op = "report" /\ last.exc = "none") =>
    /\ run.matched > 0
    /\ exit_code \in {0, 1}
    /\ exit_code = 1 <=> Len(all_regressions) >= 1
    /\ report.exists
    /\ report.failed <=> exit_code = 1
    /\ Len(report.rows) = Len(all_regressions)
    /\ \A i \in 1..Len(all_regressions) :
         /\ report.rows[i].test = all_regressions[i].test
         /\ report.rows[i].metric = all_regressions[i].metric
         /\ report.rows[i].baseline = all_regressions[i].baseline
         /\ report.rows[i].new = all_regressions[i].new

\* C13, its case: a run that returned with two different findings
C13_Witness ==
  /\ last.op = "report" /\ last.exc = "none"
  /\ Len(all_regressions) = 2
  /\ all_regressions[1] # all_regressions[2]
  /\ exit_code = 1

\* The samples in the history of a test's metric that records of the current
\* run wrote before the record just processed
FromEarlierRecords(test_name, metric_name) ==
  {s \in Samples(db, test_name, metric_name) :
     run.started <= s.timestamp /\ s.timestamp < clock - 1}

C15_EveryRecordClassified ==
  (/\ last.op = "record"
   /\ ~run.storage_error
   /\ \E b \in disk.benchmarks :
        /\ b.test_name = last.test /\ b.commit_hash = args.commit
        /\ b.timestamp = clock - 1)
  =>
  \A metric_name \in MetricNames : \A v \in ValuesIn(last.metrics, metric_name) :
    LET B == GetBaseline(db, last.test, metric_name)
    IN (B.some /\ v * B.den * 100 > B.num * (100 + args.threshold)) =>
         \E i \in (Len(last.before) + 1)..Len(all_regressions) :
           /\ all_regressions[i].test = last.test
           /\ all_regressions[i].metric = metric_name
           /\ all_regressions[i].new = v

\* C16: every finding of check_regression has a regression_pct above zero,
\* and its report row shows no minus sign after the '+'.
C16_PositiveDelta ==
  last.op = "check" =>
    \A i \in 1..Len(last.regressions) :
      LET pct == last.regressions[i].regression_pct
      IN /\ pct.num * pct.den > 0
         /\ ~Row(last.regressions[i]).regression.minus

\* C17: when a process of main has exited, close() was called on its
\* detector.
C17_GuaranteedRelease ==
  exit_code # -1 => closed

\* Every record the store holds was written with the commit of the current
\* (or last) run: the runs that wrote to this store all used that commit
OneCommit ==
  \A b \in db.benchmarks \cup disk.benchmarks : b.commit_hash = args.commit

\* C18: while all runs against a store have used one --commit value, the
\* store holds at most one live record per test, every metric of every test
\* has at most one sample to take a baseline from, and no run accumulates a
\* finding for a value >= 0 (the threshold being >= 0).
C18_SingleCommit ==
  OneCommit =>
    /\ \A a, b \in db.benchmarks : a.test_name = b.test_name => a = b
    /\ \A test_name \in Tests : \A metric_name \in MetricNames :
         Cardinality(Samples(db, test_name, metric_name)) <= 1
    /\ args.threshold >= 0 =>
         \A i \in 1..Len(all_regressions) : all_regressions[i].new < 0

\* C18, its case: a second run at the same commit has recorded 120 for a
\* test whose record of the first run held 100, and ended without a finding
C18_Witness ==
  /\ OneCommit
  /\ last.op = "report" /\ last.exc = "none"
  /\ run.started = 2 /\ clock = 3
  /\ \E m \in db.metrics :
       /\ m.metric_name = "real_time" /\ m.value = 100
       /\ \A b \in db.benchmarks : b.id # m.benchmark_id
  /\ \E s \in Samples(db, "BM_Sort", "real_time") : s.value = 120
  /\ all_regressions = <<>> /\ ~report.failed /\ exit_code = 0

\* The sample a record just processed has written for value v
Own(v) == [commit |-> args.commit, timestamp |-> clock - 1, value |-> v]

\* check_regression was called for the record of the last step and ran
\* its queries
Classified == last.op = "record" /\ last.exc \in {"none", "ZeroDivisionError"}

\* C19 (as stated): when main classifies a record, the record is committed,
\* and for each of its numeric metrics the baseline is not None and is the
\* median of the 5-sample window, which holds the record's own value and at
\* most 4 other samples.
C19_OwnValueInBaseline ==
  Classified =>
    /\ \E b \in disk.benchmarks :
         /\ b.test_name = last.test /\ b.commit_hash = args.commit
         /\ b.timestamp = clock - 1
    /\ \A metric_name \in MetricNames : \A v \in ValuesIn(last.metrics, metric_name) :
         LET window == Latest(Samples(db, last.test, metric_name), 5)
             B == GetBaseline(db, last.test, metric_name)
         IN /\ B.some
            /\ Own(v) \in window
            /\ Cardinality(window \ {Own(v)}) <= 4
            /\ RatEq(B, MedianOf(window))

\* C19 (amended): when main classifies a record, the record is committed,
\* and for each of its numeric metrics the stored samples include the
\* record's own value and the baseline is not None: it is the median of the
\* 5-sample window, which holds the record's own value exactly when fewer
\* than 5 other samples carry a timestamp at or after the record's; and a
\* finding is made exactly on that baseline.
C19_OwnValueStored ==
  Classified =>
    /\ \E b \in disk.benchmarks :
         /\ b.test_name = last.test /\ b.commit_hash = args.commit
         /\ b.timestamp = clock - 1
    /\ \A metric_name \in MetricNames : \A v \in ValuesIn(last.metrics, metric_name) :
         LET samples == Samples(db, last.test, metric_name)
             window == Latest(samples, 5)
             B == GetBaseline(db, last.test, metric_name)
             found == About(last.regressions, last.test, metric_name)
         IN /\ Own(v) \in samples
            /\ B.some
            /\ RatEq(B, MedianOf(window))
            /\ Own(v) \in window <=>
                 Cardinality({s \in samples \ {Own(v)} :
                                s.timestamp >= clock - 1}) < 5
            /\ Own(v) \in window => Cardinality(window \ {Own(v)}) <= 4
            /\ last.exc = "none" =>
                 /\ found # <<>> <=> v * B.den * 100 > B.num * (100 + args.threshold)
                 /\ \A i \in 1..Len(found) : found[i].baseline = B

\* C19, its case: a record classified on a store of 5 earlier samples, its
\* own value in the window with the 4 latest of them, the oldest left out,
\* and the own value deciding that no finding is made
C19_Witness ==
  /\ Classified /\ last.exc = "none"
  /\ \E v \in ValuesIn(last.metrics, "real_time") :
       LET samples == Samples(db, last.test, "real_time")
           window == Latest(samples, 5)
       IN /\ Cardinality(samples) = 6
          /\ Own(v) \in window
          /\ Cardinality(window \ {Own(v)}) = 4
          /\ last.regressions = <<>>
          /\ LET B == MedianOf(samples \ {Own(v)})
             IN v * B.den * 100 > B.num * (100 + args.threshold)

====
